---- MODULE Spec2Model ----
(***************************************************************************)
(* A model of mkdocs-title-casing-plugin: the Term value type, the table   *)
(* of ignored terms, the resolver is_term_ignored, the HTML heading parser *)
(* (string_helpers.py) and the warn/fix strategies of the plugin           *)
(* (plugin.py).                                                            *)
(*                                                                         *)
(* A Python str is a sequence of one-character strings: "(e)" is           *)
(* <<"(", "e", ")">>.  Python's None and a raised exception are sequences  *)
(* holding one multi-character string, so they differ from every str.      *)
(***************************************************************************)
EXTENDS Integers, Sequences, FiniteSets, TLC

VARIABLES
    pc,             \* position of the modelled run
    lines,          \* the lines of the ignore-definition file
    ignored_terms,  \* dict[str, Term]: case-folded word -> canonical Term
    term,           \* the token handed to is_term_ignored
    resolved,       \* what is_term_ignored returned
    raw,            \* the string handed to Term.from_string
    parsed,         \* the Term that Term.from_string returned
    left_term,      \* the Term on the left of ==
    right_term,     \* the Term on the right of ==
    compared,       \* what ==, in both orders, and hash returned
    line,           \* the line handed to parse_html_heading
    heading,        \* what parse_html_heading returned
    mode,                       \* config.mode
    capitalization_type,        \* config.capitalization_type
    config_nav,                 \* whether the configuration declares a nav
    nav_starting_line_number,   \* TitleCasingPlugin._nav_starting_line_number
    nav,                        \* the Navigation handed to on_nav
    html,                       \* the markup handed to on_page_content
    log,                        \* the warnings logged so far
    handled,                    \* the _handle_* calls of on_nav, in order
    line_number,                \* on_nav's line_number when its loop ends
    nav_returned,               \* what on_nav returned
    page_returned,              \* what on_page_content returned
    resubmitted                 \* whether the input is a returned output

resolverVars == <<lines, ignored_terms, term, resolved>>
termVars == <<raw, parsed, left_term, right_term, compared>>
headingVars == <<line, heading>>
configVars == <<mode, capitalization_type, config_nav, nav_starting_line_number>>
pluginVars ==
    <<configVars, nav, html, log, handled, line_number, nav_returned,
      page_returned, resubmitted>>
vars == <<pc, resolverVars, termVars, headingVars, pluginVars>>

None == <<"<None>">>
RuntimeError == <<"<RuntimeError>">>
NotCalled == <<"<not called>">>
\* None where a tuple of str is expected.
NoTuple == <<None>>

-----------------------------------------------------------------------------
(* Strings *)

\* The grave accent U+0060 (the backtick), which a TLA+ string cannot hold.
Grave == "GRAVE"

Concat3(a, b, c) == a \o b \o c

\* Python's  a in b  on str: a is a literal substring of b.
IsSubstring(a, b) ==
    \E i \in 0..(Len(b) - Len(a)) : SubSeq(b, i + 1, i + Len(a)) = a

UpperCase ==
    <<"A", "B", "C", "D", "E", "F", "G", "H", "I", "J", "K", "L", "M",
      "N", "O", "P", "Q", "R", "S", "T", "U", "V", "W", "X", "Y", "Z">>
LowerCase ==
    <<"a", "b", "c", "d", "e", "f", "g", "h", "i", "j", "k", "l", "m",
      "n", "o", "p", "q", "r", "s", "t", "u", "v", "w", "x", "y", "z">>

IsUpper(c) == \E i \in DOMAIN UpperCase : UpperCase[i] = c
IsLower(c) == \E i \in DOMAIN LowerCase : LowerCase[i] = c
ToLower(c) ==
    IF IsUpper(c) THEN LowerCase[CHOOSE i \in DOMAIN UpperCase : UpperCase[i] = c]
    ELSE c
ToUpper(c) ==
    IF IsLower(c) THEN UpperCase[CHOOSE i \in DOMAIN LowerCase : LowerCase[i] = c]
    ELSE c

\* str.casefold() on ASCII text: every cased letter becomes its lower case.
Casefold(s) == [i \in DOMAIN s |-> ToLower(s[i])]

Whitespace == {" ", "\t", "\n", "\r", "\f"}

RECURSIVE LStrip(_)
LStrip(s) ==
    IF s # <<>> /\ Head(s) \in Whitespace THEN LStrip(Tail(s)) ELSE s

RECURSIVE RStrip(_)
RStrip(s) ==
    IF s # <<>> /\ s[Len(s)] \in Whitespace
    THEN RStrip(SubSeq(s, 1, Len(s) - 1)) ELSE s

\* str.strip()
Strip(s) == RStrip(LStrip(s))

-----------------------------------------------------------------------------
(* Term *)

\* The ASCII members of the character class PUNCTUATION; the class also
\* holds the typographic quotes and dashes, which no modelled input uses.
PUNCTUATION ==
    {"!", "\"", "#", "$", "%", "&", "'", "(", ")", "*", "+", ",", "-", ".",
     "/", ":", ";", "?", "@", "[", "\\", "]", "_", Grave, "{", "|", "}", "~"}

AllIn(s, from, to, S) == \A k \in from..to : s[k] \in S
NoneIs(s, from, to, c) == \A k \in from..to : s[k] # c

\* PUNCTUATION_CAPTURE_RE.fullmatch(word): the splits <<i, j>> of word into
\* word[1..i], word[i+1..j], word[j+1..] that the pattern
\* ([P]*)(.*?)([P]*) admits; "." matches every character but a newline.
PunctuationCaptureSplits(word) ==
    LET n == Len(word)
        firstEnds == {i \in 0..n : AllIn(word, 1, i, PUNCTUATION)}
        thirdStarts == {j \in 0..n : AllIn(word, j + 1, n, PUNCTUATION)}
    IN  {ij \in firstEnds \X thirdStarts :
            ij[1] <= ij[2] /\ NoneIs(word, ij[1] + 1, ij[2], "\n")}

\* The split the backtracking matcher reports: the first group is greedy
\* (longest first), the second lazy (shortest first).
PunctuationCaptureMatch(word) ==
    LET S == PunctuationCaptureSplits(word)
        i == CHOOSE a \in {ij[1] : ij \in S} : \A ij \in S : ij[1] <= a
        j == CHOOSE b \in {ij[2] : ij \in {x \in S : x[1] = i}} :
                \A ij \in {x \in S : x[1] = i} : b <= ij[2]
    IN  <<i, j>>

\* Term._split_punctuation raises RuntimeError when fullmatch gives None.
SplitRaises(word) == PunctuationCaptureSplits(word) = {}

SplitPunctuation(word) ==
    LET m == PunctuationCaptureMatch(word)
    IN  <<SubSeq(word, 1, m[1]),
          SubSeq(word, m[1] + 1, m[2]),
          SubSeq(word, m[2] + 1, Len(word))>>

Term(p, w, s) == [prefix |-> p, word |-> w, suffix |-> s]
NoTerm == Term(NotCalled, NotCalled, NotCalled)

\* Term.from_string, where _split_punctuation does not raise.
FromString(t) ==
    LET g == SplitPunctuation(t) IN Term(g[1], g[2], g[3])

\* lookup_word without the case folding.
LookupWordNoFold(self) == self.word

\* Term.lookup_word
LookupWord(self) == Casefold(self.word)

\* Term.__eq__(self, other); the dataclass keeps a __eq__ the class defines.
TermEq(self, other) ==
    /\ other.prefix = self.prefix
    /\ other.word = self.word
    /\ other.suffix = self.prefix

\* Term.__str__
Str(self) == Concat3(self.prefix, self.word, self.suffix)

\* Term.casefold
TermCasefold(self) == Term(self.prefix, Casefold(self.word), self.suffix)

\* adopt_prefix_and_suffix keeping self's own affixes.
AdoptSelfAffixes(self, other) == Term(self.prefix, self.word, self.suffix)

\* adopt_prefix_and_suffix taking other's word as well.
AdoptOtherWord(self, other) == Term(other.prefix, other.word, other.suffix)

\* Term.adopt_prefix_and_suffix
AdoptPrefixAndSuffix(self, other) == Term(other.prefix, self.word, other.suffix)

\* has_same_word_superset_affixes asking for a strict superset.
HasProperSupersetAffixes(self, other) ==
    /\ IsSubstring(other.prefix, self.prefix)
    /\ IsSubstring(other.suffix, self.suffix)
    /\ other.word = self.word
    /\ ~(other.prefix = self.prefix /\ other.suffix = self.suffix)

\* Term.has_same_word_superset_affixes
HasSameWordSupersetAffixes(self, other) ==
    /\ IsSubstring(other.prefix, self.prefix)
    /\ IsSubstring(other.suffix, self.suffix)
    /\ other.word = self.word

\* Term.has_same_word_subset_affixes
HasSameWordSubsetAffixes(self, other) ==
    /\ IsSubstring(self.prefix, other.prefix)
    /\ IsSubstring(self.suffix, other.suffix)
    /\ other.word = self.word

-----------------------------------------------------------------------------
(* The table of ignored terms *)

\* A dict is a function on its set of keys.
EmptyDict == [k \in {} |-> Term(<<>>, <<>>, <<>>)]

\* The dict comprehension keeping the first term of a key.
RECURSIVE DictOfTermsFirstWins(_)
DictOfTermsFirstWins(terms) ==
    IF terms = <<>> THEN EmptyDict
    ELSE LET after == DictOfTermsFirstWins(Tail(terms))
             key == LookupWord(Head(terms))
         IN  [k \in (DOMAIN after) \cup {key} |->
                 IF k = key THEN Head(terms) ELSE after[k]]

\* {term.lookup_word: term for term in terms}: a later term overwrites an
\* earlier one with the same key.
RECURSIVE DictOfTerms(_)
DictOfTerms(terms) ==
    IF terms = <<>> THEN EmptyDict
    ELSE LET n == Len(terms)
             before == DictOfTerms(SubSeq(terms, 1, n - 1))
             key == LookupWord(terms[n])
         IN  [k \in (DOMAIN before) \cup {key} |->
                 IF k = key THEN terms[n] ELSE before[k]]

\* to_ignored_terms_mapping, where no line makes from_string raise.
ToIgnoredTermsMapping(ls) ==
    DictOfTerms([i \in DOMAIN ls |-> FromString(Strip(ls[i]))])

MappingRaises(ls) == \E i \in DOMAIN ls : SplitRaises(Strip(ls[i]))

-----------------------------------------------------------------------------
(* The resolver *)

\* is_term_ignored(ignored_terms, term)
IsTermIgnored(table, t) ==
    IF SplitRaises(t) THEN RuntimeError
    ELSE
    LET lookup_term == FromString(t) IN
    IF LookupWord(lookup_term) \notin DOMAIN table THEN None
    ELSE
    LET canonical_term == table[LookupWord(lookup_term)]
        representation_term == AdoptPrefixAndSuffix(canonical_term, lookup_term)
        casefold_lookup_term == TermCasefold(lookup_term)
        casefold_canonical_term == TermCasefold(canonical_term)
    IN  CASE TermEq(lookup_term, canonical_term) ->
                Str(representation_term)
          [] HasSameWordSupersetAffixes(lookup_term, canonical_term) ->
                Str(representation_term)
          [] HasSameWordSubsetAffixes(lookup_term, canonical_term) ->
                None
          [] TermEq(casefold_lookup_term, casefold_canonical_term) ->
                Str(representation_term)
          [] HasSameWordSupersetAffixes(casefold_lookup_term,
                                        casefold_canonical_term) ->
                None
          [] HasSameWordSubsetAffixes(casefold_lookup_term,
                                      casefold_canonical_term) ->
                None
          [] OTHER ->
                Str(AdoptPrefixAndSuffix(canonical_term, lookup_term))

-----------------------------------------------------------------------------
(* Inputs of the resolver *)

MaxAffixLen == 2
MaxLines == 2

RECURSIVE StringsUpTo(_, _)
StringsUpTo(S, n) ==
    IF n = 0 THEN {<<>>}
    ELSE LET shorter == StringsUpTo(S, n - 1)
         IN  shorter \cup {Append(s, c) : s \in shorter, c \in S}

RECURSIVE ListsUpTo(_, _)
ListsUpTo(S, n) ==
    IF n = 0 THEN {<<>>}
    ELSE LET shorter == ListsUpTo(S, n - 1)
         IN  shorter \cup {Append(l, x) : l \in shorter, x \in S}

PrefixChars == {"(", Grave}
SuffixChars == {")", Grave}
TokenWords == {<<>>, <<"e">>, <<"E">>, <<"c">>}

\* Tokens as the title-casing callback sees them: a word in punctuation;
\* and one token holding a line break.
Tokens ==
    {Concat3(p, w, s) : p \in StringsUpTo(PrefixChars, MaxAffixLen),
                        w \in TokenWords,
                        s \in StringsUpTo(SuffixChars, MaxAffixLen)}
    \cup {<<"e", "\n", "e">>}

\* Lines of an ignore-definition file.
IgnoreLines ==
    {<<"E">>,
     <<Grave, "e", Grave, "\n">>,
     <<" ", "(", "E", ")">>,
     <<"c">>}

-----------------------------------------------------------------------------
(* The resolver's run: the table is built, then a token is resolved *)

ResolverIdle ==
    /\ lines = <<>>
    /\ ignored_terms = EmptyDict
    /\ term = NotCalled
    /\ resolved = NotCalled

NotCompared ==
    /\ left_term = NoTerm
    /\ right_term = NoTerm
    /\ compared = NotCalled

TermIdle == raw = NotCalled /\ parsed = NoTerm /\ NotCompared

HeadingIdle == line = NotCalled /\ heading = <<NotCalled>>

PluginIdle ==
    /\ mode = "warn"
    /\ capitalization_type = "title"
    /\ config_nav = FALSE
    /\ nav_starting_line_number = 0
    /\ nav = [items |-> <<>>, pages |-> <<>>]
    /\ html = <<>>
    /\ log = <<>>
    /\ handled = <<>>
    /\ line_number = 0
    /\ nav_returned = [none |-> TRUE]
    /\ page_returned = NotCalled
    /\ resubmitted = FALSE

InitResolver ==
    /\ pc = "start"
    /\ lines \in ListsUpTo(IgnoreLines, MaxLines)
    /\ ignored_terms = EmptyDict
    /\ term = NotCalled
    /\ resolved = NotCalled
    /\ TermIdle
    /\ HeadingIdle
    /\ PluginIdle

LoadIgnoredTerms ==
    /\ pc = "start"
    /\ IF MappingRaises(lines)
       THEN pc' = "raised" /\ UNCHANGED ignored_terms
       ELSE pc' = "loaded" /\ ignored_terms' = ToIgnoredTermsMapping(lines)
    /\ UNCHANGED <<lines, term, resolved, termVars, headingVars, pluginVars>>

Resolve ==
    /\ pc = "loaded"
    /\ \E t \in Tokens :
          /\ term' = t
          /\ resolved' = IsTermIgnored(ignored_terms, t)
    /\ pc' = "resolved"
    /\ UNCHANGED <<lines, ignored_terms, termVars, headingVars, pluginVars>>

NextResolver == LoadIgnoredTerms \/ Resolve

SpecResolver == InitResolver /\ [][NextResolver]_vars

-----------------------------------------------------------------------------
(* Claims on the resolver *)

\* The token of a finished call that parsed and hit the table.
Hit ==
    /\ pc = "resolved"
    /\ ~SplitRaises(term)
    /\ Casefold(SplitPunctuation(term)[2]) \in DOMAIN ignored_terms

TokenPrefix == SplitPunctuation(term)[1]
TokenWord == SplitPunctuation(term)[2]
TokenSuffix == SplitPunctuation(term)[3]
Canonical == ignored_terms[Casefold(TokenWord)]

SameAffixes == TokenPrefix = Canonical.prefix /\ TokenSuffix = Canonical.suffix
WordDiffersInCaseOnly == TokenWord # Canonical.word

\* C1: a token with the canonical word whose prefix and suffix are
\* substrings of the canonical prefix and suffix, not both identical to
\* them, resolves to None.
C1_SubsetAffixesGiveNone ==
    ( /\ Hit
      /\ TokenWord = Canonical.word
      /\ IsSubstring(TokenPrefix, Canonical.prefix)
      /\ IsSubstring(TokenSuffix, Canonical.suffix)
      /\ ~SameAffixes )
    => resolved = None

\* C2: a token with the canonical word whose prefix and suffix contain the
\* canonical prefix and suffix as substrings resolves to its own prefix,
\* the canonical word and its own suffix.
C2_SupersetAffixesGiveRepresentation ==
    ( /\ Hit
      /\ TokenWord = Canonical.word
      /\ IsSubstring(Canonical.prefix, TokenPrefix)
      /\ IsSubstring(Canonical.suffix, TokenSuffix) )
    => resolved = Concat3(TokenPrefix, Canonical.word, TokenSuffix)

C2_Witness ==
    /\ Hit
    /\ TokenWord = Canonical.word
    /\ IsSubstring(Canonical.prefix, TokenPrefix)
    /\ IsSubstring(Canonical.suffix, TokenSuffix)
    /\ Canonical.prefix # <<>>
    /\ Len(TokenPrefix) > Len(Canonical.prefix)
    /\ Len(TokenSuffix) > Len(Canonical.suffix)
    /\ resolved = term

\* C3: a token whose word differs from the canonical word only in case and
\* whose prefix and suffix are the canonical ones resolves to the canonical
\* term's own string.
C3_CaseFoldedExactAffixes ==
    (Hit /\ WordDiffersInCaseOnly /\ SameAffixes)
    => resolved = Concat3(Canonical.prefix, Canonical.word, Canonical.suffix)

\* C4: the string of a table entry resolves to itself.
C4_RoundTrip ==
    ( /\ Hit
      /\ term = Concat3(Canonical.prefix, Canonical.word, Canonical.suffix) )
    => resolved = term

C4_Witness ==
    /\ Hit
    /\ term = Concat3(Canonical.prefix, Canonical.word, Canonical.suffix)
    /\ Canonical.prefix # Canonical.suffix
    /\ Canonical.prefix # <<>>
    /\ Canonical.suffix # <<>>
    /\ resolved = term

\* C5: a token whose case-folded word is no key of the table resolves to
\* None, whatever punctuation surrounds the word.
C5_MissGivesNone ==
    ( /\ pc = "resolved"
      /\ ~SplitRaises(term)
      /\ Casefold(TokenWord) \notin DOMAIN ignored_terms )
    => resolved = None

C5_Witness ==
    /\ pc = "resolved"
    /\ ~SplitRaises(term)
    /\ TokenWord = <<"c">>
    /\ TokenPrefix # <<>>
    /\ TokenSuffix # <<>>
    /\ DOMAIN ignored_terms = {<<"e">>}
    /\ resolved = None

\* C6: every string the resolver returns is the token's prefix, the
\* canonical word registered for the token's case-folded word, and the
\* token's suffix.
C6_ResultIsRepresentation ==
    (pc = "resolved" /\ ~SplitRaises(term) /\ resolved # None)
    => /\ Casefold(TokenWord) \in DOMAIN ignored_terms
       /\ resolved = Concat3(TokenPrefix, Canonical.word, TokenSuffix)

C6_Witness ==
    /\ Hit
    /\ resolved # None
    /\ WordDiffersInCaseOnly
    /\ ~SameAffixes
    /\ resolved = Concat3(TokenPrefix, Canonical.word, TokenSuffix)

-----------------------------------------------------------------------------
(* Term.from_string on arbitrary strings *)

MaxRawLen == 4

RawChars == {"e", "(", ")", "\n"}

InitTerm ==
    /\ pc = "start"
    /\ raw \in StringsUpTo(RawChars, MaxRawLen)
    /\ parsed = NoTerm
    /\ NotCompared
    /\ ResolverIdle
    /\ HeadingIdle
    /\ PluginIdle

\* Term.from_string(raw): a Term, or the RuntimeError of _split_punctuation.
FromStringCall ==
    /\ pc = "start"
    /\ IF SplitRaises(raw)
       THEN pc' = "raised" /\ UNCHANGED parsed
       ELSE pc' = "parsed" /\ parsed' = FromString(raw)
    /\ UNCHANGED <<raw, left_term, right_term, compared>>
    /\ UNCHANGED <<resolverVars, headingVars, pluginVars>>

NextTerm == FromStringCall

SpecTerm == InitTerm /\ [][NextTerm]_vars

\* C7: from_string succeeds on every string; prefix + word + suffix is
\* the input, prefix and suffix hold punctuation only, a non-empty word
\* neither starts nor ends with punctuation, and an all-punctuation input
\* gives an empty word.
C7_TotalSplit ==
    pc # "start" =>
        /\ pc = "parsed"
        /\ Concat3(parsed.prefix, parsed.word, parsed.suffix) = raw
        /\ \A k \in DOMAIN parsed.prefix : parsed.prefix[k] \in PUNCTUATION
        /\ \A k \in DOMAIN parsed.suffix : parsed.suffix[k] \in PUNCTUATION
        /\ parsed.word # <<>> =>
              /\ parsed.word[1] \notin PUNCTUATION
              /\ parsed.word[Len(parsed.word)] \notin PUNCTUATION
        /\ (\A k \in DOMAIN raw : raw[k] \in PUNCTUATION) => parsed.word = <<>>

-----------------------------------------------------------------------------
(* parse_html_heading *)

Blank == {" ", "\t"}
HeadingLevels == {"1", "2", "3", "4", "5", "6"}

StartsWithAt(s, k, what) ==
    k + Len(what) - 1 <= Len(s) /\ SubSeq(s, k, k + Len(what) - 1) = what

\* First group of HTML_HEADING_RE, [ \t]*<(?:h1|..|h6)[ \t]+(?:.*?=[^>]*?)> :
\* the positions i at which a match of the group that starts the line ends.
OpeningTagEnds(s) ==
    {i \in 1..Len(s) :
        /\ s[i] = ">"
        /\ \E a \in 0..(i - 1) :
              /\ AllIn(s, 1, a, Blank)
              /\ a + 4 < i
              /\ s[a + 1] = "<"
              /\ s[a + 2] = "h"
              /\ s[a + 3] \in HeadingLevels
              /\ \E b \in (a + 4)..(i - 1) :
                    /\ AllIn(s, a + 4, b, Blank)
                    /\ \E e \in (b + 1)..(i - 1) :
                          /\ s[e] = "="
                          /\ NoneIs(s, b + 1, e - 1, "\n")
                          /\ NoneIs(s, e + 1, i - 1, ">")}

\* Third group with a remainder of any kind, (<.*) as in plugin.py.
AnyTagStarts(s) ==
    {j \in 0..Len(s) :
        /\ StartsWithAt(s, j + 1, <<"<">>)
        /\ NoneIs(s, j + 1, Len(s), "\n")}

\* Third group of HTML_HEADING_RE, ((?:<a|<\/h)(?:.*)) : the positions j
\* after which a match of the group that ends the line starts.
RemainderStarts(s) ==
    {j \in 0..Len(s) :
        /\ StartsWithAt(s, j + 1, <<"<", "a">>)
           \/ StartsWithAt(s, j + 1, <<"<", "/", "h">>)
        /\ NoneIs(s, j + 1, Len(s), "\n")}

\* HTML_HEADING_RE.fullmatch(line): the splits <<i, j>> the pattern admits;
\* the second group (.*?) holds no line break.
HtmlHeadingSplits(s) ==
    {ij \in OpeningTagEnds(s) \X RemainderStarts(s) :
        ij[1] <= ij[2] /\ NoneIs(s, ij[1] + 1, ij[2], "\n")}

\* The split the backtracking matcher reports: the lazy quantifiers of the
\* first group end it at the earliest place, then the lazy second group
\* is the shortest.
HtmlHeadingMatch(s) ==
    LET S == HtmlHeadingSplits(s)
        i == CHOOSE a \in {ij[1] : ij \in S} : \A ij \in S : a <= ij[1]
        j == CHOOSE b \in {ij[2] : ij \in {x \in S : x[1] = i}} :
                \A ij \in {x \in S : x[1] = i} : b <= ij[2]
    IN  <<i, j>>

\* str.replace(old, new): the occurrences of old found left to right.
RECURSIVE Replace(_, _, _)
Replace(s, old, new) ==
    IF Len(s) < Len(old) THEN s
    ELSE IF SubSeq(s, 1, Len(old)) = old
         THEN new \o Replace(SubSeq(s, Len(old) + 1, Len(s)), old, new)
         ELSE <<Head(s)>> \o Replace(Tail(s), old, new)

\* HTML_UNSAFE_DECODINGS, in the order of the dict.
HTML_UNSAFE_DECODINGS ==
    <<<<<<"&", "a", "m", "p", ";">>, <<"&">>>>,
      <<<<"&", "q", "u", "o", "t", ";">>, <<"\"">>>>,
      <<<<"&", "#", "0", "3", "9", ";">>, <<"'">>>>,
      <<<<"&", "l", "t", ";">>, <<"<">>>>,
      <<<<"&", "g", "t", ";">>, <<">">>>>,
      <<<<"&", "#", "9", "6", ";">>, <<Grave>>>>,
      <<<<"<", "c", "o", "d", "e", ">">>, <<Grave>>>>,
      <<<<"<", "/", "c", "o", "d", "e", ">">>, <<Grave>>>>>>

RECURSIVE DecodeFrom(_, _)
DecodeFrom(h, k) ==
    IF k > Len(HTML_UNSAFE_DECODINGS) THEN h
    ELSE DecodeFrom(Replace(h, HTML_UNSAFE_DECODINGS[k][1],
                               HTML_UNSAFE_DECODINGS[k][2]), k + 1)

\* The loop of parse_html_heading over HTML_UNSAFE_DECODINGS.items().
Decode(h) == DecodeFrom(h, 1)

\* parse_html_heading(line)
ParseHtmlHeading(s) ==
    IF HtmlHeadingSplits(s) = {} THEN NoTuple
    ELSE LET m == HtmlHeadingMatch(s)
         IN  <<SubSeq(s, 1, m[1]),
               Decode(SubSeq(s, m[1] + 1, m[2])),
               SubSeq(s, m[2] + 1, Len(s))>>

-----------------------------------------------------------------------------
(* Inputs of parse_html_heading: an opening, inner pieces, a remainder *)

MaxInnerPieces == 2

Openings ==
    {<<"<", "h", "1", " ", "i", "d", "=", "x", ">">>,
     <<" ", "<", "h", "6", " ", "a", "=", "b", " ", "c", "=", "d", ">">>,
     <<"<", "h", "2", "\t", "i", "d", "=", ">">>,
     <<"<", "h", "1", ">">>,
     <<"<", "h", "7", " ", "i", "d", "=", "x", ">">>,
     <<"<", "h", "3", " ", "i", "d", ">">>,
     <<"<", "o", "l", ">">>,
     <<"x", "<", "h", "1", " ", "i", "d", "=", "x", ">">>}

InnerPieces ==
    {<<"a">>,
     <<" ">>,
     <<"&", "a", "m", "p", ";">>,
     <<"l", "t", ";">>,
     <<"<", "c", "o", "d", "e", ">">>,
     <<"<", "/", "c", "o", "d", "e", ">">>,
     <<"<", "b", ">">>,
     <<"=", "1", ">">>}

Remainders ==
    {<<"<", "/", "h", "1", ">">>,
     <<"<", "a", ">", "P", "<", "/", "a", ">", "<", "/", "h", "1", ">">>,
     <<"<", "a", "b", "b", "r", ">">>,
     <<"<", "/", "p", ">">>,
     <<>>,
     <<"<", "b", ">", "<", "/", "h", "1", ">">>}

RECURSIVE Flatten(_)
Flatten(l) == IF l = <<>> THEN <<>> ELSE Head(l) \o Flatten(Tail(l))

HtmlLines ==
    {Concat3(o, Flatten(inner), r) :
        o \in Openings,
        inner \in ListsUpTo(InnerPieces, MaxInnerPieces),
        r \in Remainders}

InitHeading ==
    /\ pc = "start"
    /\ line \in HtmlLines
    /\ heading = <<NotCalled>>
    /\ ResolverIdle
    /\ TermIdle
    /\ PluginIdle

ParseHtmlHeadingCall ==
    /\ pc = "start"
    /\ heading' = ParseHtmlHeading(line)
    /\ pc' = "parsed"
    /\ UNCHANGED <<line, resolverVars, termVars, pluginVars>>

NextHeading == ParseHtmlHeadingCall

SpecHeading == InitHeading /\ [][NextHeading]_vars

-----------------------------------------------------------------------------
(* Claim on parse_html_heading *)

\* An h1..h6 opening tag with an attribute, after optional blanks.
IsOpeningTagText(t) ==
    \E a \in 0..Len(t) :
        /\ AllIn(t, 1, a, Blank)
        /\ a + 5 < Len(t)
        /\ StartsWithAt(t, a + 1, <<"<", "h">>)
        /\ t[a + 3] \in HeadingLevels
        /\ t[a + 4] \in Blank
        /\ \E e \in (a + 5)..(Len(t) - 1) : t[e] = "="
        /\ t[Len(t)] = ">"

IsRemainderText(t) ==
    StartsWithAt(t, 1, <<"<", "a">>) \/ StartsWithAt(t, 1, <<"<", "/", "h">>)

\* No code tag and no character reference.
IsPlainText(t) ==
    /\ \A k \in DOMAIN t : t[k] # "&"
    /\ ~IsSubstring(<<"<", "c", "o", "d", "e", ">">>, t)
    /\ ~IsSubstring(<<"<", "/", "c", "o", "d", "e", ">">>, t)

IsHeadingLine(s) ==
    \E i \in 0..Len(s) : \E j \in i..Len(s) :
        /\ IsOpeningTagText(SubSeq(s, 1, i))
        /\ IsRemainderText(SubSeq(s, j + 1, Len(s)))

\* C8: a line made of an h1..h6 opening tag with an attribute, an inner
\* text and a remainder starting with <a or </h parses to the opening
\* tag, the normalized inner text and the remainder, the first and the
\* last copied from the line, and the three give the line back when the
\* inner text holds no code tag and no character reference; any other
\* line parses to None.
C8_ParseHtmlHeading ==
    pc = "parsed" =>
        IF IsHeadingLine(line)
        THEN /\ Len(heading) = 3
             /\ IsOpeningTagText(heading[1])
             /\ IsRemainderText(heading[3])
             /\ \E i \in 0..Len(line) : \E j \in i..Len(line) :
                   /\ heading[1] = SubSeq(line, 1, i)
                   /\ heading[3] = SubSeq(line, j + 1, Len(line))
                   /\ heading[2] = Decode(SubSeq(line, i + 1, j))
                   /\ IsPlainText(SubSeq(line, i + 1, j)) =>
                         Concat3(heading[1], heading[2], heading[3]) = line
        ELSE Len(heading) = 1 /\ heading[1] = None

C8_Witness ==
    /\ pc = "parsed"
    /\ IsHeadingLine(line)
    /\ Len(heading) = 3
    /\ heading[1][1] \in Blank
    /\ heading[2] = <<Grave, "a">>
    /\ Len(heading[3]) > 5

-----------------------------------------------------------------------------
(* plugin.py: casing *)

ConfigurationError == <<"<ConfigurationError>">>

IsCased(c) == IsUpper(c) \/ IsLower(c)

\* str.title(): a cased character is upper-cased after an uncased one (or
\* at the start) and lower-cased after a cased one.
StrTitle(s) ==
    [i \in DOMAIN s |->
        IF i = 1 \/ ~IsCased(s[i - 1]) THEN ToUpper(s[i]) ELSE ToLower(s[i])]

\* titlecase(), of the titlecase package, on the modelled titles (words of
\* one letter, none of them a small word): each word is capitalized.
Titlecase(s) ==
    [i \in DOMAIN s |->
        IF i = 1 \/ s[i - 1] \in Whitespace THEN ToUpper(s[i]) ELSE s[i]]

CapitalizationTypes == {"first_letter", "title"}

\* Strategy._to_titlecase, where capitalization_type is a known one; any
\* other value makes the call raise ConfigurationError.
ToTitlecase(v, cap) ==
    LET stripped == Strip(v)
    IN  Strip(IF cap = "first_letter" THEN StrTitle(stripped)
              ELSE Titlecase(stripped))

\* _handle_heading warning about every heading it is given.
HandleHeadingAlways(h, ln, cap) ==
    IF h = None THEN <<>>
    ELSE <<[line_number |-> ln, heading |-> h, fixed |-> ToTitlecase(h, cap)]>>

\* Strategy._handle_heading(heading, line_number, file_path) of on_nav: the
\* warnings it logs.
HandleHeading(h, ln, cap) ==
    IF h = None THEN <<>>
    ELSE LET fixed_heading == ToTitlecase(h, cap)
         IN  IF h # fixed_heading
             THEN <<[line_number |-> ln, heading |-> h, fixed |-> fixed_heading]>>
             ELSE <<>>

-----------------------------------------------------------------------------
(* plugin.py: the navigation *)

Section(title, children) ==
    [kind |-> "section", title |-> title, children |-> children]
Page(title) == [kind |-> "page", title |-> title, children |-> <<>>]
Link(title) == [kind |-> "link", title |-> title, children |-> <<>>]
Navigation(items, pages) == [items |-> items, pages |-> pages]
NoNavigation == [none |-> TRUE]

\* The nodes of a list of items, a section before its children.
RECURSIVE NodesOf(_)
NodesOf(items) ==
    IF items = <<>> THEN <<>>
    ELSE <<Head(items)>> \o NodesOf(Head(items).children) \o NodesOf(Tail(items))

\* Whether a run of on_nav reaches _to_titlecase: _handle_heading returns
\* early on a None heading, FixOnNavStrategy skips the None title of a page
\* or a link.
NavCallsToTitlecase(items) ==
    \E k \in DOMAIN NodesOf(items) : NodesOf(items)[k].title # None

\* WarningOnNavStrategy: _traverse_navigation and _traverse_section.  The
\* value is the warnings logged and the line number handed on.
RECURSIVE WarnTraverseNavigation(_, _, _)
RECURSIVE WarnTraverseItems(_, _, _)
WarnTraverseNavigation(item, ln, cap) ==
    IF item.kind = "section"
    THEN LET below == WarnTraverseItems(item.children, ln, cap)
         IN  [log |-> below.log
                      \o HandleHeading(item.title, below.line_number, cap),
              line_number |-> below.line_number + 1]
    ELSE [log |-> HandleHeading(item.title, ln, cap),
          line_number |-> ln + 1]

\* The loop over the children of a section, and on_nav's over the nav.
WarnTraverseItems(items, ln, cap) ==
    IF items = <<>> THEN [log |-> <<>>, line_number |-> ln]
    ELSE LET first == WarnTraverseNavigation(Head(items), ln, cap)
             rest == WarnTraverseItems(Tail(items), first.line_number, cap)
         IN  [log |-> first.log \o rest.log, line_number |-> rest.line_number]

FixTitle(title, cap) ==
    IF title = None THEN None ELSE ToTitlecase(title, cap)

\* FixOnNavStrategy: _traverse_navigation and _traverse_section.  acc holds
\* self._items, self._pages and the line number; the value adds the item
\* built.
RECURSIVE FixTraverseNavigation(_, _, _)
RECURSIVE FixTraverseChildren(_, _, _)
FixTraverseNavigation(item, acc, cap) ==
    CASE item.kind = "section" ->
            LET below == FixTraverseChildren(item.children,
                            [acc EXCEPT !.out_children = <<>>], cap)
            IN  [items |-> below.items,
                 pages |-> below.pages,
                 line_number |-> below.line_number + 1,
                 out_children |-> acc.out_children,
                 out |-> Section(ToTitlecase(item.title, cap),
                                 below.out_children)]
      [] item.kind = "page" ->
            LET new_page == Page(FixTitle(item.title, cap))
            IN  [items |-> acc.items,
                 pages |-> Append(acc.pages, new_page),
                 line_number |-> acc.line_number + 1,
                 out_children |-> acc.out_children,
                 out |-> new_page]
      [] item.kind = "link" ->
            LET new_link == Link(FixTitle(item.title, cap))
            IN  [items |-> Append(acc.items, new_link),
                 pages |-> acc.pages,
                 line_number |-> acc.line_number + 1,
                 out_children |-> acc.out_children,
                 out |-> new_link]

\* The loop of _traverse_section: out_children.append(out_child).
FixTraverseChildren(children, acc, cap) ==
    IF children = <<>> THEN acc
    ELSE LET r == FixTraverseNavigation(Head(children), acc, cap)
         IN  FixTraverseChildren(Tail(children),
                [items |-> r.items,
                 pages |-> r.pages,
                 line_number |-> r.line_number,
                 out_children |-> Append(r.out_children, r.out)], cap)

\* The loop of OnNavStrategy.on_nav with FixOnNavStrategy's
\* _handle_top_level_item: self._items.append(out_item).
RECURSIVE FixTraverseTop(_, _, _)
FixTraverseTop(items, acc, cap) ==
    IF items = <<>> THEN acc
    ELSE LET r == FixTraverseNavigation(Head(items), acc, cap)
         IN  FixTraverseTop(Tail(items),
                [items |-> Append(r.items, r.out),
                 pages |-> r.pages,
                 line_number |-> r.line_number,
                 out_children |-> <<>>], cap)

\* FixOnNavStrategy.on_nav: the state of the strategy when the loop ends;
\* _build_output returns Navigation(self._items, self._pages).
FixOnNav(n, ln, cap) ==
    FixTraverseTop(n.items,
        [items |-> <<>>, pages |-> <<>>, line_number |-> ln,
         out_children |-> <<>>], cap)

\* WarningOnNavStrategy.on_nav
WarnOnNav(n, ln, cap) == WarnTraverseItems(n.items, ln, cap)

\* OnNavStrategy, whatever the strategy: the calls of _handle_section,
\* _handle_page and _handle_link in the order they are made, each with the
\* node it is given (by its position in document order, a section before
\* its children) and the line number it is given.  index is the position of
\* the item; the value adds the line number and the position handed on.
RECURSIVE TraverseNavigationCalls(_, _, _)
RECURSIVE TraverseItemsCalls(_, _, _)
TraverseNavigationCalls(item, ln, index) ==
    IF item.kind = "section"
    THEN LET below == TraverseItemsCalls(item.children, ln, index + 1)
         IN  [calls |-> Append(below.calls,
                               [node |-> index,
                                line_number |-> below.line_number]),
              line_number |-> below.line_number + 1,
              index |-> below.index]
    ELSE [calls |-> <<[node |-> index, line_number |-> ln]>>,
          line_number |-> ln + 1,
          index |-> index + 1]

TraverseItemsCalls(items, ln, index) ==
    IF items = <<>> THEN [calls |-> <<>>, line_number |-> ln, index |-> index]
    ELSE LET first == TraverseNavigationCalls(Head(items), ln, index)
             rest == TraverseItemsCalls(Tail(items), first.line_number,
                                        first.index)
         IN  [calls |-> first.calls \o rest.calls,
              line_number |-> rest.line_number,
              index |-> rest.index]

\* OnNavStrategy.on_nav(nav, initial_line_number): the calls of a run that
\* returns.
HandleCalls(n, ln) == TraverseItemsCalls(n.items, ln, 1).calls

-----------------------------------------------------------------------------
(* plugin.py: the page content *)

\* Third group of html_heading_re, (<.*) : the positions j after which a
\* match of the group that ends the line starts.
SuffixStarts(s) ==
    {j \in 0..Len(s) :
        /\ StartsWithAt(s, j + 1, <<"<">>)
        /\ NoneIs(s, j + 1, Len(s), "\n")}

\* html_heading_re.fullmatch(line): the splits <<i, j>> the pattern admits;
\* its first group is the first group of HTML_HEADING_RE.
PageHeadingSplits(s) ==
    {ij \in OpeningTagEnds(s) \X SuffixStarts(s) :
        ij[1] <= ij[2] /\ NoneIs(s, ij[1] + 1, ij[2], "\n")}

\* The split the backtracking matcher reports (lazy first and second group).
PageHeadingMatch(s) ==
    LET S == PageHeadingSplits(s)
        i == CHOOSE a \in {ij[1] : ij \in S} : \A ij \in S : a <= ij[1]
        j == CHOOSE b \in {ij[2] : ij \in {x \in S : x[1] = i}} :
                \A ij \in {x \in S : x[1] = i} : b <= ij[2]
    IN  <<i, j>>

IsPageHeading(s) == PageHeadingSplits(s) # {}

\* The line boundaries of str.splitlines that the modelled markup uses.
LineBreaks == {"\n", "\r", "\f"}

FirstBreak(s) ==
    IF \E k \in DOMAIN s : s[k] \in LineBreaks
    THEN CHOOSE k \in DOMAIN s :
            s[k] \in LineBreaks /\ \A m \in 1..(k - 1) : s[m] \notin LineBreaks
    ELSE 0

\* str.splitlines(): "\r\n" is one boundary, and a boundary that ends the
\* string opens no further line.
RECURSIVE Splitlines(_)
Splitlines(s) ==
    IF s = <<>> THEN <<>>
    ELSE LET k == FirstBreak(s)
         IN  IF k = 0 THEN <<s>>
             ELSE LET after ==
                        IF s[k] = "\r" /\ k < Len(s) /\ s[k + 1] = "\n"
                        THEN k + 1 ELSE k
                  IN  <<SubSeq(s, 1, k - 1)>>
                      \o Splitlines(SubSeq(s, after + 1, Len(s)))

\* "\n".join(lines)
RECURSIVE Join(_)
Join(ls) ==
    IF ls = <<>> THEN <<>>
    ELSE IF Len(ls) = 1 THEN ls[1]
    ELSE ls[1] \o <<"\n">> \o Join(Tail(ls))

\* The heading line rebuilt without its suffix.
FixLineDroppingSuffix(s, cap) ==
    IF IsPageHeading(s)
    THEN LET m == PageHeadingMatch(s)
         IN  SubSeq(s, 1, m[1]) \o ToTitlecase(SubSeq(s, m[1] + 1, m[2]), cap)
    ELSE s

\* FixOnPageContentStrategy: the line appended to self._lines for a line.
FixLine(s, cap) ==
    IF IsPageHeading(s)
    THEN LET m == PageHeadingMatch(s)
         IN  Concat3(SubSeq(s, 1, m[1]),
                     ToTitlecase(SubSeq(s, m[1] + 1, m[2]), cap),
                     SubSeq(s, m[2] + 1, Len(s)))
    ELSE s

\* FixOnPageContentStrategy.on_page_content
FixOnPageContent(h, cap) ==
    Join([k \in DOMAIN Splitlines(h) |-> FixLine(Splitlines(h)[k], cap)])

\* WarningOnPageContentStrategy: what _handle_heading logs for a line; the
\* heading of a heading line is a str, and no line number is given.
WarnLine(s, cap) ==
    IF IsPageHeading(s)
    THEN LET m == PageHeadingMatch(s)
             h == SubSeq(s, m[1] + 1, m[2])
             fixed_heading == ToTitlecase(h, cap)
         IN  IF h # fixed_heading
             THEN <<[heading |-> h, fixed |-> fixed_heading]>>
             ELSE <<>>
    ELSE <<>>

\* WarningOnPageContentStrategy.on_page_content: the warnings it logs.
RECURSIVE WarnPageLines(_, _)
WarnPageLines(ls, cap) ==
    IF ls = <<>> THEN <<>>
    ELSE WarnLine(Head(ls), cap) \o WarnPageLines(Tail(ls), cap)

\* Whether a run of on_page_content reaches _to_titlecase.
PageCallsToTitlecase(h) ==
    \E k \in DOMAIN Splitlines(h) : IsPageHeading(Splitlines(h)[k])

-----------------------------------------------------------------------------
(* plugin.py: TitleCasingPlugin.on_nav and on_page_content *)

\* on_nav(nav, config, files)
OnNav ==
    /\ pc = "start"
    /\ nav # NoNavigation
    /\ IF ~config_nav
       THEN /\ pc' = "nav_returned"
            /\ nav_returned' = NoNavigation
            /\ UNCHANGED <<log, handled, line_number>>
       ELSE IF mode \notin {"fix", "warn"}
               \/ ( /\ capitalization_type \notin CapitalizationTypes
                    /\ NavCallsToTitlecase(nav.items) )
       THEN /\ pc' = "raised"
            /\ UNCHANGED <<log, handled, line_number, nav_returned>>
       ELSE IF mode = "fix"
       THEN LET done == FixOnNav(nav, nav_starting_line_number,
                                 capitalization_type)
            IN  /\ pc' = "nav_returned"
                /\ nav_returned' = Navigation(done.items, done.pages)
                /\ line_number' = done.line_number
                /\ handled' = HandleCalls(nav, nav_starting_line_number)
                /\ UNCHANGED log
       ELSE LET done == WarnOnNav(nav, nav_starting_line_number,
                                  capitalization_type)
            IN  /\ pc' = "nav_returned"
                /\ nav_returned' = NoNavigation
                /\ line_number' = done.line_number
                /\ handled' = HandleCalls(nav, nav_starting_line_number)
                /\ log' = log \o done.log
    /\ UNCHANGED <<configVars, nav, html, page_returned, resubmitted>>
    /\ UNCHANGED <<resolverVars, termVars, headingVars>>

\* on_page_content(html, page, config, files)
OnPageContent ==
    /\ pc = "start"
    /\ html # NotCalled
    /\ IF mode \notin {"fix", "warn"}
          \/ ( /\ capitalization_type \notin CapitalizationTypes
               /\ PageCallsToTitlecase(html) )
       THEN /\ pc' = "raised"
            /\ UNCHANGED <<log, page_returned>>
       ELSE IF mode = "fix"
       THEN /\ pc' = "page_returned"
            /\ page_returned' = FixOnPageContent(html, capitalization_type)
            /\ UNCHANGED log
       ELSE /\ pc' = "page_returned"
            /\ page_returned' = None
            /\ log' = log \o WarnPageLines(Splitlines(html),
                                           capitalization_type)
    /\ UNCHANGED <<configVars, nav, html, handled, line_number, nav_returned,
                   resubmitted>>
    /\ UNCHANGED <<resolverVars, termVars, headingVars>>

\* The navigation that on_nav returned is handed to on_nav again.
ResubmitNav ==
    /\ pc = "nav_returned"
    /\ ~resubmitted
    /\ nav_returned # NoNavigation
    /\ nav' = nav_returned
    /\ resubmitted' = TRUE
    /\ pc' = "start"
    /\ UNCHANGED <<configVars, html, log, handled, line_number, nav_returned,
                   page_returned>>
    /\ UNCHANGED <<resolverVars, termVars, headingVars>>

\* The markup that on_page_content returned is handed to it again.
ResubmitPage ==
    /\ pc = "page_returned"
    /\ ~resubmitted
    /\ page_returned # None
    /\ html' = page_returned
    /\ resubmitted' = TRUE
    /\ pc' = "start"
    /\ UNCHANGED <<configVars, nav, log, handled, line_number, nav_returned,
                   page_returned>>
    /\ UNCHANGED <<resolverVars, termVars, headingVars>>

-----------------------------------------------------------------------------
(* Inputs of the plugin *)

MaxNavNodes == 3
MaxHtmlPieces == 3

SectionTitles == {<<"p">>, <<"P">>}
LeafTitles == {<<"p">>, <<"P">>, <<>>, None}

\* The lists of items with n nodes in all; a section has a str title, a page
\* or a link may have none.
RECURSIVE ItemLists(_)
ItemLists(n) ==
    IF n = 0 THEN {<<>>}
    ELSE UNION {
            {<<first>> \o rest :
                first \in {Section(t, ch) :
                             t \in SectionTitles, ch \in ItemLists(k - 1)}
                          \cup (IF k = 1
                                THEN {Page(t) : t \in LeafTitles}
                                     \cup {Link(t) : t \in LeafTitles}
                                ELSE {}),
                rest \in ItemLists(n - k)}
          : k \in 1..n}

\* The pages of a list of items in document order: Navigation.pages.
RECURSIVE PagesOf(_)
PagesOf(items) ==
    IF items = <<>> THEN <<>>
    ELSE (IF Head(items).kind = "page" THEN <<Head(items)>> ELSE <<>>)
         \o PagesOf(Head(items).children) \o PagesOf(Tail(items))

Navigations ==
    {Navigation(items, PagesOf(items)) :
        items \in UNION {ItemLists(n) : n \in 0..MaxNavNodes}}

PagePieces ==
    {<<"<", "h", "1", " ", "i", "=", "x", ">", "p", "<", "/", "h", "1", ">">>,
     <<"<", "h", "2", " ", "i", "=", "x", ">", " ", "P", " ", "p", "<", "a", ">">>,
     <<"<", "o", "l", ">">>,
     <<"\n">>,
     <<"\r">>}

Markups == {Flatten(l) : l \in ListsUpTo(PagePieces, MaxHtmlPieces)}

NavStartingLineNumbers == {0, 3}
ConfiguredTypes == CapitalizationTypes \cup {"upper"}

\* The other variables while the plugin runs.
OthersIdle == ResolverIdle /\ TermIdle /\ HeadingIdle

\* A run of the plugin starts with the configuration loaded (on_config has
\* set _nav_starting_line_number, which stays 0 when config.nav is None or
\* no line starts with "nav:") and either a navigation for on_nav or the
\* markup of a page for on_page_content.
PluginStart ==
    /\ pc = "start"
    /\ \/ nav \in Navigations /\ html = NotCalled
       \/ nav = NoNavigation /\ html \in Markups
    /\ log = <<>>
    /\ handled = <<>>
    /\ line_number = nav_starting_line_number
    /\ nav_returned = NoNavigation
    /\ page_returned = NotCalled
    /\ resubmitted = FALSE

InitFix ==
    /\ OthersIdle
    /\ mode = "fix"
    /\ capitalization_type \in CapitalizationTypes
    /\ config_nav \in BOOLEAN
    /\ nav_starting_line_number = 0
    /\ PluginStart

NextFix == OnNav \/ OnPageContent \/ ResubmitNav \/ ResubmitPage

SpecFix == InitFix /\ [][NextFix]_vars

InitWarn ==
    /\ OthersIdle
    /\ mode = "warn"
    /\ capitalization_type \in ConfiguredTypes
    /\ config_nav \in BOOLEAN
    /\ nav_starting_line_number
         \in (IF config_nav THEN NavStartingLineNumbers ELSE {0})
    /\ PluginStart

NextWarn == OnNav \/ OnPageContent

SpecWarn == InitWarn /\ [][NextWarn]_vars

-----------------------------------------------------------------------------
(* Claims about the plugin *)

NavRun == nav # NoNavigation
PageRun == html # NotCalled

\* C9: in fix mode, applying on_nav to the navigation it returned gives that
\* navigation again, and applying on_page_content to the markup it returned
\* gives that markup again (the casing functions modelled are idempotent).
C9_FixIsIdempotent ==
    resubmitted =>
        /\ (NavRun /\ pc = "nav_returned") => nav_returned = nav
        /\ (PageRun /\ pc = "page_returned") => page_returned = html

\* The nodes of a list of items in the order on_nav handles them.
RECURSIVE HandledOrder(_)
HandledOrder(items) ==
    IF items = <<>> THEN <<>>
    ELSE HandledOrder(Head(items).children) \o <<Head(items)>>
         \o HandledOrder(Tail(items))

IsMismatch(title, cap) == title # None /\ title # ToTitlecase(title, cap)

\* The positions from k on whose node is a mismatch, in increasing order.
RECURSIVE MismatchPositions(_, _, _)
MismatchPositions(nodes, k, cap) ==
    IF k > Len(nodes) THEN <<>>
    ELSE (IF IsMismatch(nodes[k].title, cap) THEN <<k>> ELSE <<>>)
         \o MismatchPositions(nodes, k + 1, cap)

\* What a finished run of on_nav has logged, by the nodes of the navigation:
\* one diagnostic for each mismatch and none for any other node, the k-th
\* node handled having line number _nav_starting_line_number + k - 1, in
\* the order the nodes are handled and with increasing line numbers.
OneDiagnosticPerMismatch ==
    LET nodes == HandledOrder(nav.items)
        at == MismatchPositions(nodes, 1, capitalization_type)
    IN  /\ Len(log) = Len(at)
        /\ \A k \in DOMAIN log :
            /\ log[k].heading = nodes[at[k]].title
            /\ log[k].fixed = ToTitlecase(nodes[at[k]].title,
                                          capitalization_type)
            /\ log[k].line_number = nav_starting_line_number + at[k] - 1
        /\ \A j, k \in DOMAIN log :
            j < k => log[j].line_number < log[k].line_number

-----------------------------------------------------------------------------
(* Runs of the plugin under a configuration with an unrecognized value *)

ConfiguredModes == {"fix", "warn", "check"}

\* mode and capitalization_type take any str (config_options.Type(str)); here
\* at least one of the two is none of the values the plugin knows.
InitMisconfigured ==
    /\ OthersIdle
    /\ mode \in ConfiguredModes
    /\ capitalization_type \in ConfiguredTypes
    /\ mode \notin {"fix", "warn"}
       \/ capitalization_type \notin CapitalizationTypes
    /\ config_nav \in BOOLEAN
    /\ nav_starting_line_number = 0
    /\ PluginStart

NextMisconfigured == OnNav \/ OnPageContent

SpecMisconfigured == InitMisconfigured /\ [][NextMisconfigured]_vars

RunEnded == pc # "start"

\* C11: with a mode other than warn and fix, every call of on_nav and of
\* on_page_content ends in a ConfigurationError, whatever the other
\* configuration values and the input, a configuration without nav included.
C11_UnknownModeRaises ==
    (mode \notin {"fix", "warn"} /\ RunEnded) => pc = "raised"

\* C12: with a capitalization_type other than title and first_letter, every
\* run of on_nav and of on_page_content in warn or fix mode ends in a
\* ConfigurationError, also when the input has no heading line or only nodes
\* without a title.
C12_UnknownTypeRaises ==
    ( /\ capitalization_type \notin CapitalizationTypes
      /\ mode \in {"fix", "warn"}
      /\ RunEnded ) => pc = "raised"

-----------------------------------------------------------------------------
(* Claims on the table of ignored terms *)

\* The case-folded word of the i-th line.
LineKey(i) == Casefold(SplitPunctuation(Strip(lines[i]))[2])

TableBuilt == pc \in {"loaded", "resolved"}

\* C13: the table has exactly one entry per distinct case-folded word of
\* the lines, keyed by that word, and the entry of a word is the Term of the
\* last line with that case-folded word.
C13_LastLineWins ==
    TableBuilt =>
        /\ DOMAIN ignored_terms = {LineKey(i) : i \in DOMAIN lines}
        /\ \A i \in DOMAIN lines :
            (\A j \in DOMAIN lines : j > i => LineKey(j) # LineKey(i))
            => ignored_terms[LineKey(i)] = FromString(Strip(lines[i]))

\* Two lines of one case-folded word and different case and punctuation
\* have been loaded into one entry, that of the second line.
C13_Witness ==
    /\ TableBuilt
    /\ Len(lines) = 2
    /\ LineKey(1) = LineKey(2)
    /\ FromString(Strip(lines[1])).word # FromString(Strip(lines[2])).word
    /\ FromString(Strip(lines[1])).prefix # FromString(Strip(lines[2])).prefix
    /\ Cardinality(DOMAIN ignored_terms) = 1
    /\ ignored_terms[LineKey(2)] = FromString(Strip(lines[2]))

-----------------------------------------------------------------------------
(* Claims on the case-folded branches of the resolver *)

AffixesSuperset ==
    /\ IsSubstring(Canonical.prefix, TokenPrefix)
    /\ IsSubstring(Canonical.suffix, TokenSuffix)

AffixesSubset ==
    /\ IsSubstring(TokenPrefix, Canonical.prefix)
    /\ IsSubstring(TokenSuffix, Canonical.suffix)

\* C14: a token whose word differs from the canonical word only in case and
\* whose prefix and suffix are not both the canonical ones, but contain them
\* or are contained in them, resolves to None.
C14_CaseFoldedOtherAffixesGiveNone ==
    ( /\ Hit
      /\ WordDiffersInCaseOnly
      /\ ~SameAffixes
      /\ AffixesSuperset \/ AffixesSubset )
    => resolved = None

-----------------------------------------------------------------------------
(* Term.__eq__ and Term.__hash__ on pairs of Terms *)

\* Term.__hash__: hash((self._prefix, self._word, self._suffix)); the hash
\* of a tuple is modelled by the tuple, so that two hashes are equal exactly
\* when the tuples are.
Hash(self) == <<self.prefix, self.word, self.suffix>>

ComparedPrefixes == {<<>>, <<"(">>}
ComparedWords == {<<"e">>, <<"E">>}
ComparedSuffixes == {<<>>, <<"(">>, <<")">>}

\* Terms as the dataclass constructor builds them, field by field.
ComparedTerms ==
    {Term(p, w, s) :
        p \in ComparedPrefixes, w \in ComparedWords, s \in ComparedSuffixes}

InitCompare ==
    /\ pc = "start"
    /\ left_term \in ComparedTerms
    /\ right_term \in ComparedTerms
    /\ compared = NotCalled
    /\ raw = NotCalled
    /\ parsed = NoTerm
    /\ ResolverIdle
    /\ HeadingIdle
    /\ PluginIdle

\* left == right, right == left, left == left, hash(left), hash(right)
Compare ==
    /\ pc = "start"
    /\ compared' = [left_right |-> TermEq(left_term, right_term),
                    right_left |-> TermEq(right_term, left_term),
                    left_left |-> TermEq(left_term, left_term),
                    hash_left |-> Hash(left_term),
                    hash_right |-> Hash(right_term)]
    /\ pc' = "compared"
    /\ UNCHANGED <<raw, parsed, left_term, right_term>>
    /\ UNCHANGED <<resolverVars, headingVars, pluginVars>>

NextCompare == Compare

SpecCompare == InitCompare /\ [][NextCompare]_vars

\* C15: a == b holds exactly when a and b have the same prefix, the same
\* word and the same suffix; == is reflexive and symmetric, and Terms that
\* are equal have equal hashes.
C15_StructuralEquality ==
    pc = "compared" =>
        /\ compared.left_right <=>
              /\ left_term.prefix = right_term.prefix
              /\ left_term.word = right_term.word
              /\ left_term.suffix = right_term.suffix
        /\ compared.left_left
        /\ compared.left_right <=> compared.right_left
        /\ compared.left_right => compared.hash_left = compared.hash_right

-----------------------------------------------------------------------------
(* parse_html_heading on inner texts made of encoded forms *)

EncodedPieces ==
    {<<"a">>,
     <<"&">>,
     <<"&", "a", "m", "p", ";">>,
     <<"a", "m", "p", ";">>,
     <<"l", "t", ";">>,
     <<"&", "l", "t", ";", "c", "o", "d", "e">>,
     <<"&", "g", "t", ";">>,
     <<"<", "c", "o", "d", "e", ">">>,
     <<"<", "/", "c", "o", "d", "e", ">">>,
     <<"&", "q", "u", "o", "t", ";">>,
     <<"&", "#", "0", "3", "9", ";">>,
     <<"&", "#", "9", "6", ";">>}

DecodeOpening == <<"<", "h", "1", " ", "i", "d", "=", "x", ">">>
DecodeRemainder == <<"<", "/", "h", "1", ">">>

DecodeLines ==
    {Concat3(DecodeOpening, Flatten(inner), DecodeRemainder) :
        inner \in ListsUpTo(EncodedPieces, MaxInnerPieces)}

InitDecode ==
    /\ pc = "start"
    /\ line \in DecodeLines
    /\ heading = <<NotCalled>>
    /\ ResolverIdle
    /\ TermIdle
    /\ PluginIdle

NextDecode == ParseHtmlHeadingCall

SpecDecode == InitDecode /\ [][NextDecode]_vars

\* The inner text of the line as matched, before any decoding.
RawInner ==
    LET m == HtmlHeadingMatch(line) IN SubSeq(line, m[1] + 1, m[2])

\* The encoded form of HTML_UNSAFE_DECODINGS that starts h, or 0.
EncodedAtStart(h) ==
    IF \E k \in DOMAIN HTML_UNSAFE_DECODINGS :
            StartsWithAt(h, 1, HTML_UNSAFE_DECODINGS[k][1])
    THEN CHOOSE k \in DOMAIN HTML_UNSAFE_DECODINGS :
            StartsWithAt(h, 1, HTML_UNSAFE_DECODINGS[k][1])
    ELSE 0

\* Every occurrence of an encoded form in the raw text replaced once, all
\* at the same time: what a replacement produces is not looked at again.
RECURSIVE SimultaneousDecode(_)
SimultaneousDecode(h) ==
    IF h = <<>> THEN <<>>
    ELSE LET k == EncodedAtStart(h)
         IN  IF k = 0 THEN <<Head(h)>> \o SimultaneousDecode(Tail(h))
             ELSE HTML_UNSAFE_DECODINGS[k][2]
                  \o SimultaneousDecode(
                        SubSeq(h, Len(HTML_UNSAFE_DECODINGS[k][1]) + 1, Len(h)))

\* The replacements applied one after the other in a given order.
RECURSIVE DecodeInOrder(_, _)
DecodeInOrder(h, order) ==
    IF order = <<>> THEN h
    ELSE DecodeInOrder(Replace(h, HTML_UNSAFE_DECODINGS[Head(order)][1],
                                  HTML_UNSAFE_DECODINGS[Head(order)][2]),
                       Tail(order))

\* The order of the dict, its reverse, and the order with &amp; last.
DecodingOrders ==
    {<<1, 2, 3, 4, 5, 6, 7, 8>>,
     <<8, 7, 6, 5, 4, 3, 2, 1>>,
     <<2, 3, 4, 5, 6, 7, 8, 1>>}

\* C16: the inner text that parse_html_heading returns is the raw inner
\* text with each occurrence of the eight encoded forms replaced once,
\* simultaneously, and applying the replacements in another order gives the
\* same text: no replacement consumes what another produced.
C16_DecodingsDoNotInteract ==
    (pc = "parsed" /\ Len(heading) = 3) =>
        /\ heading[2] = SimultaneousDecode(RawInner)
        /\ \A order \in DecodingOrders :
              DecodeInOrder(RawInner, order) = heading[2]

-----------------------------------------------------------------------------
(* Claims on the numbering of the navigation *)

\* C17: the traversal numbers the nodes in pre-order: line numbers follow
\* the document order (a section before its children), the k-th node having
\* the k-th line number from the initial one on, so that a section's line
\* number is smaller than that of each of its descendants.
C17_PreOrderNumbering ==
    (NavRun /\ pc = "nav_returned") =>
        \A i, j \in DOMAIN handled :
            handled[i].line_number - handled[j].line_number
              = handled[i].node - handled[j].node

-----------------------------------------------------------------------------
(* Claims on what fix mode returns *)

\* A list of items with every title replaced by its cased form and nothing
\* else changed.
RECURSIVE CasedItems(_, _)
CasedItems(items, cap) ==
    [k \in DOMAIN items |->
        [kind |-> items[k].kind,
         title |-> FixTitle(items[k].title, cap),
         children |-> CasedItems(items[k].children, cap)]]

\* C18: in fix mode on_nav returns a navigation of the shape of its input:
\* the same items of the same kinds in the same order at every level, every
\* link and page once at its place, the pages list holding each page once in
\* document order, and each title the cased form of the original.
C18_FixKeepsShape ==
    (mode = "fix" /\ NavRun /\ config_nav /\ pc = "nav_returned") =>
        /\ nav_returned.items = CasedItems(nav.items, capitalization_type)
        /\ nav_returned.pages
             = PagesOf(CasedItems(nav.items, capitalization_type))

\* A text cut at every "\n": the lines that "\n".join put together.
RECURSIVE SplitOnNewline(_)
SplitOnNewline(s) ==
    IF \E k \in DOMAIN s : s[k] = "\n"
    THEN LET k == CHOOSE i \in DOMAIN s :
                    s[i] = "\n" /\ \A m \in 1..(i - 1) : s[m] # "\n"
         IN  <<SubSeq(s, 1, k - 1)>> \o SplitOnNewline(SubSeq(s, k + 1, Len(s)))
    ELSE <<s>>

\* The lines of the returned markup; no line for no input line.
EmittedLines ==
    IF Splitlines(html) = <<>> /\ page_returned = <<>> THEN <<>>
    ELSE SplitOnNewline(page_returned)

\* C19: in fix mode on_page_content emits one line for each line of its
\* input, in the same order: a line that is no heading line as it is, a
\* heading line as its matched prefix, the cased heading text and its
\* matched suffix, prefix and suffix unchanged.
C19_FixEmitsLineForLine ==
    (mode = "fix" /\ PageRun /\ pc = "page_returned") =>
        LET ins == Splitlines(html)
            outs == EmittedLines
        IN  /\ Len(outs) = Len(ins)
            /\ \A k \in DOMAIN ins :
                IF IsPageHeading(ins[k])
                THEN LET m == PageHeadingMatch(ins[k])
                         prefix == SubSeq(ins[k], 1, m[1])
                         text == SubSeq(ins[k], m[1] + 1, m[2])
                         suffix == SubSeq(ins[k], m[2] + 1, Len(ins[k]))
                     IN  /\ Len(outs[k]) >= Len(prefix) + Len(suffix)
                         /\ SubSeq(outs[k], 1, Len(prefix)) = prefix
                         /\ SubSeq(outs[k], Len(outs[k]) - Len(suffix) + 1,
                                   Len(outs[k])) = suffix
                         /\ SubSeq(outs[k], Len(prefix) + 1,
                                   Len(outs[k]) - Len(suffix))
                              = ToTitlecase(text, capitalization_type)
                ELSE outs[k] = ins[k]

\* A heading line whose text was recased, followed by a line that is no
\* heading line, has been returned.
C19_Witness ==
    /\ mode = "fix"
    /\ PageRun
    /\ pc = "page_returned"
    /\ ~resubmitted
    /\ Len(Splitlines(html)) = 2
    /\ IsPageHeading(Splitlines(html)[1])
    /\ ~IsPageHeading(Splitlines(html)[2])
    /\ Splitlines(html)[2] # <<>>
    /\ Len(SplitOnNewline(page_returned)) = 2
    /\ SplitOnNewline(page_returned)[1] # Splitlines(html)[1]
    /\ SplitOnNewline(page_returned)[2] = Splitlines(html)[2]

====
